---- MODULE Spec2Model ----
(***************************************************************************)
(* The research-assistant graph of src/src/assistant/graph.py: the state   *)
(* record of state.py threaded through generate_query, web_research,       *)
(* summarize_sources, reflect_on_summary, the router route_research and    *)
(* finalize_summary.                                                       *)
(*                                                                         *)
(* Python strings are sequences of one-character strings, so that          *)
(* str.find, slicing and concatenation are computed as the code computes   *)
(* them.  A Python value is a record [t, s, n]: t is the type, s the text  *)
(* of a str, n the number of an int (or the truth value of a bool, or the  *)
(* length of a list or dict).                                              *)
(***************************************************************************)
EXTENDS Integers, Sequences, FiniteSets, TLC

\* ------------------------------------------------------------------ bounds

\* Largest max_research_loops a request carries in the model.
MaxLoops == 2

\* Longest local summary on which the tag-removal loop still iterates.
MaxStrLen == 24

\* Most pieces a summary given to the tag-removal loop alone is built of.
MaxPieces == 3

\* ---------------------------------------------------------- Python values

PyStr(x) == [t |-> "str", s |-> x, n |-> 0]
PyInt(k) == [t |-> "int", s |-> <<>>, n |-> k]
PyBool(b) == [t |-> "bool", s |-> <<>>, n |-> IF b THEN 1 ELSE 0]
PyList(k) == [t |-> "list", s |-> <<>>, n |-> k]
PyNone == [t |-> "none", s |-> <<>>, n |-> 0]

\* Python truthiness, as `not x` and `if x` use it.
Truthy(v) ==
    CASE v.t = "str" -> v.s # <<>>
      [] v.t = "none" -> FALSE
      [] OTHER -> v.n # 0

IsStr(v) == v.t = "str"
IsBool(v) == v.t = "bool"

\* str.find: the lowest 0-based index at which sub occurs in x, or -1.
Find(x, sub) ==
    LET hits == {i \in 0..(Len(x) - Len(sub)) :
                    SubSeq(x, i + 1, i + Len(sub)) = sub}
    IN IF hits = {} THEN 0 - 1
       ELSE CHOOSE i \in hits : \A j \in hits : i <= j

\* x[a:b] for 0 <= a and 0 <= b.
Slice(x, a, b) == SubSeq(x, a + 1, IF b > Len(x) THEN Len(x) ELSE b)

\* x[a:]
SliceFrom(x, a) == SubSeq(x, a + 1, Len(x))

RECURSIVE Join(_, _)
\* sep.join(parts)
Join(parts, sep) ==
    IF parts = <<>> THEN <<>>
    ELSE IF Len(parts) = 1 THEN parts[1]
    ELSE parts[1] \o sep \o Join(Tail(parts), sep)

Digits == <<"0", "1", "2", "3", "4", "5", "6", "7", "8", "9">>

\* str(v) as an f-string renders it (ints of one digit suffice here).
PyFormat(v) ==
    CASE v.t = "str" -> v.s
      [] v.t = "none" -> <<"N", "o", "n", "e">>
      [] v.t = "bool" -> IF v.n = 1 THEN <<"T", "r", "u", "e">>
                         ELSE <<"F", "a", "l", "s", "e">>
      [] v.t = "int" -> <<Digits[v.n + 1]>>
      [] OTHER -> <<"[", "]">>

\* ------------------------------------------------------------ text values

StartTag == <<"<", "t", "h", "i", "n", "k", ">">>
EndTag == <<"<", "/", "t", "h", "i", "n", "k", ">">>

TopicText == <<"t">>
QueryText == <<"q", "1">>
FollowUpText == <<"q", "2">>
ModelName == <<"d", "s">>

\* The topics a request carries: a text, the empty text, none.
Topics == {PyStr(TopicText), PyStr(<<>>), PyNone}

\* max_research_loops when the request gives none.
DefaultMaxLoops == 3

LoopInputs == (0..MaxLoops) \cup {DefaultMaxLoops}

\* ------------------------------------------------- language-model responses

Absent == [t |-> "absent", s |-> <<>>, n |-> 0]

NoFields ==
    [query |-> Absent, summary |-> Absent,
     follow_up_query |-> Absent, should_continue |-> Absent]

\* A response body by what json.loads makes of it: "raise" (the call itself
\* failed), "none" and "empty" (no text), "blank" (white space only),
\* "garbage" (not JSON), "nondict" (JSON, not an object), "dict" (an object
\* with the fields d).
Body(kind) == [kind |-> kind, d |-> NoFields]
Dict(d) == [kind |-> "dict", d |-> d]

Unset == Body("unset")

Malformed ==
    {Body("raise"), Body("none"), Body("empty"), Body("blank"),
     Body("garbage"), Body("nondict"), Dict(NoFields)}

QueryResponses ==
    Malformed \cup
    {Dict([NoFields EXCEPT !.query = q]) :
        q \in {PyStr(QueryText), PyStr(<<>>), PyInt(5), PyNone}}

\* The summaries a run is given: plain, empty, with a span to remove, a
\* span only, and the two tags in reverse order.  (Summaries of any pieces
\* are given to the tag removal on its own, StripInputs.)
SummaryTexts ==
    {<<"a">>,
     <<>>,
     StartTag \o <<"x">> \o EndTag \o <<"b">>,
     StartTag \o EndTag,
     EndTag \o StartTag}

SummaryResponses ==
    Malformed \cup
    {Dict([NoFields EXCEPT !.summary = v]) :
        v \in {PyStr(x) : x \in SummaryTexts} \cup {PyInt(5), PyNone}}

ReflectResponses ==
    Malformed \cup
    {Dict([NoFields EXCEPT !.follow_up_query = PyStr(FollowUpText),
                           !.should_continue = PyBool(b)]) : b \in BOOLEAN}
    \cup
    {Dict([NoFields EXCEPT !.follow_up_query = PyInt(5),
                           !.should_continue = PyStr(<<"y">>)]),
     Dict([NoFields EXCEPT !.should_continue = PyBool(TRUE)])}

\* ------------------------------------------------------------ configuration

\* Configuration.max_web_research_loops when nothing overrides it.
DefaultConfigLoops == 3

\* A value for each of the two parameters, or none: in the environment, and
\* in the "configurable" map of the invocation.
Settings(models, loops) ==
    [model : models \cup {Absent}, max_web_research_loops : loops \cup {Absent}]

NoSettings == [model |-> Absent, max_web_research_loops |-> Absent]

\* The invocations of a run: no map, or one overriding the model by "".
RunConfigs == Settings({PyStr(<<>>)}, {})

\* Every environment and map: a parameter unset, set, or (the model) empty.
AllEnvirons == Settings({PyStr(<<>>), PyStr(<<"e">>)}, {PyInt(1)})
AllConfigs == Settings({PyStr(<<>>), PyStr(<<"c">>)}, {PyInt(2)})

\* Configuration.from_runnable_config: the fields the map names take its
\* values, the others their defaults.
from_runnable_config(config) ==
    [model |-> IF config.model # Absent THEN config.model
               ELSE PyStr(ModelName),
     max_web_research_loops |->
         IF config.max_web_research_loops # Absent
         THEN config.max_web_research_loops
         ELSE PyInt(DefaultConfigLoops)]

\* json.loads(content) succeeds.
JsonOk(resp) == resp.kind \in {"nondict", "dict"}

\* `not content`
ContentFalsy(resp) == resp.kind \in {"none", "empty"}

\* `not content or not content.strip()`
ContentBlank(resp) == resp.kind \in {"none", "empty", "blank"}

\* ------------------------------------------------------------ search results

Result1 == [url |-> <<"u", "1">>, title |-> <<"A">>, content |-> <<"c", "1">>]
Result2 == [url |-> <<"u", "2">>, title |-> <<"B">>, content |-> <<"c", "2">>]

\* What tavily_search returns for max_results = 1, or "raise".
SearchResponses ==
    {[kind |-> "raise", results |-> <<>>],
     [kind |-> "ok", results |-> <<Result1>>],
     [kind |-> "ok", results |-> <<Result2>>]}

MaxTokensPerSource == 1000

RECURSIVE Dedup(_, _)
\* Results with a URL already seen dropped, first occurrence kept.
Dedup(results, seen) ==
    IF results = <<>> THEN <<>>
    ELSE IF results[1].url \in seen THEN Dedup(Tail(results), seen)
    ELSE <<results[1]>> \o Dedup(Tail(results), seen \cup {results[1].url})

\* The prompt-ready block of a search response: per source its title, URL
\* and content cut to 4 characters a token.
deduplicate_and_format_sources(results, max_tokens_per_source) ==
    LET srcs == Dedup(results, {})
        block(r) == r.title \o <<"\n">> \o r.url \o <<"\n">>
                    \o Slice(r.content, 0, 4 * max_tokens_per_source)
    IN Join([i \in 1..Len(srcs) |-> block(srcs[i])], <<"\n">>)

\* The citation list of a search response: one bullet a result.
format_sources(results) ==
    LET line(r) == <<"*", " ">> \o r.title \o <<" ", ":", " ">> \o r.url
    IN Join([i \in 1..Len(results) |-> line(results[i])], <<"\n">>)

\* -------------------------------------------------------------------- state

VARIABLES
    pc,                    \* the node the graph runs next; "done"; "failed"
    research_topic,        \* SummaryState.research_topic
    search_query,          \* SummaryState.search_query
    web_research_results,  \* SummaryState.web_research_results
    sources_gathered,      \* SummaryState.sources_gathered
    research_loop_count,   \* SummaryState.research_loop_count
    running_summary,       \* SummaryState.running_summary
    max_research_loops,    \* SummaryState.max_research_loops
    api_key,               \* whether DEEPSEEK_API_KEY is set
    cfg_model,             \* Configuration.model as resolved for the run
    cfg_loops,             \* Configuration.max_web_research_loops, likewise
    environ,               \* the environment's model and loop-count values
    configurable,          \* the "configurable" map of the invocation
    prompt,                \* what the last model instruction was built from
    content,               \* what the last language-model call gave back
    summ_local,            \* summarize_sources' local running_summary
    loop_pass,             \* the passes its tag-removal loop took, modulo 2
    error,                 \* the exception raised in a node, and the node
    output,                \* the output record the run emitted
    steps,                 \* the nodes entered, in order
    llm_calls,             \* chat-completion requests made
    search_calls,          \* search requests made
    strip_pass,            \* tag removal applied alone: which application
    strip_first            \* tag removal applied alone: the first result

state == <<research_topic, search_query, web_research_results,
           sources_gathered, research_loop_count, running_summary,
           max_research_loops>>

calls == <<llm_calls, search_calls, prompt>>

env == <<api_key, cfg_model, cfg_loops, environ, configurable>>

strip == <<strip_pass, strip_first>>

vars == <<pc, state, env, content, summ_local, loop_pass, error, output,
          steps, calls, strip>>

NoError == [kind |-> "none", at |-> "none"]
NoOutput == [emitted |-> FALSE, running_summary |-> PyNone]

Nodes == {"generate_query", "web_research", "summarize_sources",
          "reflect_on_summary", "finalize_summary"}

\* The fields of SummaryState: a node's update of any other key is dropped.
StateKeys == {"research_topic", "search_query", "web_research_results",
              "sources_gathered", "research_loop_count", "running_summary",
              "max_research_loops"}

\* --------------------------------------------------------------- node bodies

\* What a node body does: the exception it raises ("none": it returns), the
\* update it returns, and the external calls it made before that.
NoUpdate == [none |-> 0]
Raise(kind, llm, search) ==
    [raised |-> kind, upd |-> NoUpdate, llm |-> llm, search |-> search]
Return(upd, llm, search) ==
    [raised |-> "none", upd |-> upd, llm |-> llm, search |-> search]

\* The client set-up every model-calling node shares: the API key, then the
\* model of the Configuration.
ClientError ==
    IF ~api_key THEN "ConfigurationError"
    ELSE IF ~Truthy(cfg_model) THEN "ConfigurationError"
    ELSE "none"

generate_query_body(resp) ==
    IF ~Truthy(research_topic) THEN Raise("MissingInput", 0, 0)
    ELSE IF ClientError # "none" THEN Raise(ClientError, 0, 0)
    ELSE IF resp.kind = "raise" THEN Raise("ExternalCallFailure", 1, 0)
    ELSE IF ContentBlank(resp) THEN Raise("InvalidResponse", 1, 0)
    ELSE IF ~JsonOk(resp) THEN Raise("InvalidResponse", 1, 0)
    ELSE IF resp.kind # "dict" \/ resp.d.query = Absent
         THEN Raise("InvalidResponse", 1, 0)
    ELSE Return([search_query |-> resp.d.query], 1, 0)

\* web_research without the check of its input.
web_research_unchecked(found) ==
    IF found.kind = "raise" THEN Raise("ExternalCallFailure", 0, 1)
    ELSE Return([sources_gathered |-> <<format_sources(found.results)>>,
                 research_loop_count |-> research_loop_count + 1,
                 web_research_results |->
                     <<deduplicate_and_format_sources(found.results,
                                                      MaxTokensPerSource)>>],
                0, 1)

\* web_research also returning the query as used up.
web_research_clears_query(found) ==
    IF ~Truthy(search_query) THEN Raise("MissingInput", 0, 0)
    ELSE IF found.kind = "raise" THEN Raise("ExternalCallFailure", 0, 1)
    ELSE Return([sources_gathered |-> <<format_sources(found.results)>>,
                 research_loop_count |-> research_loop_count + 1,
                 web_research_results |->
                     <<deduplicate_and_format_sources(found.results,
                                                      MaxTokensPerSource)>>,
                 search_query |-> PyNone],
                0, 1)

web_research_body(found) ==
    IF ~Truthy(search_query) THEN Raise("MissingInput", 0, 0)
    ELSE IF found.kind = "raise" THEN Raise("ExternalCallFailure", 0, 1)
    ELSE Return([sources_gathered |-> <<format_sources(found.results)>>,
                 research_loop_count |-> research_loop_count + 1,
                 web_research_results |->
                     <<deduplicate_and_format_sources(found.results,
                                                      MaxTokensPerSource)>>],
                0, 1)

\* summarize_sources reading the field with a default, summary_data.get.
summarize_parse_default(resp) ==
    IF sources_gathered = <<>> THEN Raise("MissingInput", 0, 0)
    ELSE IF ClientError # "none" THEN Raise(ClientError, 0, 0)
    ELSE IF resp.kind = "raise" THEN Raise("ExternalCallFailure", 1, 0)
    ELSE IF ContentFalsy(resp) THEN Raise("InvalidResponse", 1, 0)
    ELSE IF ~JsonOk(resp) THEN Raise("InvalidResponse", 1, 0)
    ELSE IF resp.kind # "dict" THEN Raise("InvalidResponse", 1, 0)
    ELSE Return([running_summary |->
                    IF resp.d.summary = Absent THEN PyStr(<<>>)
                    ELSE resp.d.summary], 1, 0)

\* summarize_sources up to the parsed summary (the tag removal follows).
summarize_parse(resp) ==
    IF sources_gathered = <<>> THEN Raise("MissingInput", 0, 0)
    ELSE IF ClientError # "none" THEN Raise(ClientError, 0, 0)
    ELSE IF resp.kind = "raise" THEN Raise("ExternalCallFailure", 1, 0)
    ELSE IF ContentFalsy(resp) THEN Raise("InvalidResponse", 1, 0)
    ELSE IF ~JsonOk(resp) THEN Raise("InvalidResponse", 1, 0)
    ELSE IF resp.kind # "dict" \/ resp.d.summary = Absent
         THEN Raise("InvalidResponse", 1, 0)
    ELSE Return([running_summary |-> resp.d.summary], 1, 0)

\* The loop left only when neither tag is found (`and` for `or`): with one
\* tag missing its index -1 is used in the slices as Python uses it.
StripIterEither(x) ==
    LET start_idx == Find(x, StartTag)
        end_idx == Find(x, EndTag)
        end_pos == end_idx + Len(EndTag)
        head == IF start_idx = 0 - 1 THEN Slice(x, 0, Len(x) - 1)
                ELSE Slice(x, 0, start_idx)
    IN IF start_idx = 0 - 1 /\ end_idx = 0 - 1 THEN [brk |-> TRUE, val |-> x]
       ELSE IF end_pos <= Len(x)
            THEN [brk |-> FALSE, val |-> head \o SliceFrom(x, end_pos)]
       ELSE [brk |-> TRUE, val |-> x]

\* One pass of the tag-removal loop on the text x: brk, the loop is left;
\* val, the text after the pass.
StripIter(x) ==
    LET start_idx == Find(x, StartTag)
        end_idx == Find(x, EndTag)
        end_pos == end_idx + Len(EndTag)
    IN IF start_idx = 0 - 1 \/ end_idx = 0 - 1 THEN [brk |-> TRUE, val |-> x]
       ELSE IF end_pos <= Len(x)
            THEN [brk |-> FALSE,
                  val |-> Slice(x, 0, start_idx) \o SliceFrom(x, end_pos)]
       ELSE [brk |-> TRUE, val |-> x]

\* The guard of the tag removal: a non-empty str.
StripApplies(v) == Truthy(v) /\ IsStr(v)

\* reflect_on_summary's defaulting of the two fields it reads.
CoerceBool(v) == IF IsBool(v) THEN v ELSE PyBool(FALSE)
CoerceStr(v) == IF IsStr(v) THEN v ELSE PyStr(<<>>)

\* reflect_on_summary returning the follow-up as the next search query.
reflect_records_query(resp) ==
    IF ~Truthy(running_summary) THEN Raise("MissingInput", 0, 0)
    ELSE IF ClientError # "none" THEN Raise(ClientError, 0, 0)
    ELSE IF resp.kind = "raise" THEN Raise("ExternalCallFailure", 1, 0)
    ELSE IF ContentFalsy(resp) THEN Raise("InvalidResponse", 1, 0)
    ELSE IF ~JsonOk(resp) THEN Raise("InvalidResponse", 1, 0)
    ELSE IF resp.kind # "dict" THEN Raise("InvalidResponse", 1, 0)
    ELSE Return([should_continue |-> CoerceBool(resp.d.should_continue),
                 search_query |-> CoerceStr(resp.d.follow_up_query)],
                1, 0)

\* reflect_on_summary without the check of its input.
reflect_unchecked(resp) ==
    IF ClientError # "none" THEN Raise(ClientError, 0, 0)
    ELSE IF resp.kind = "raise" THEN Raise("ExternalCallFailure", 1, 0)
    ELSE IF ContentFalsy(resp) THEN Raise("InvalidResponse", 1, 0)
    ELSE IF ~JsonOk(resp) THEN Raise("InvalidResponse", 1, 0)
    ELSE IF resp.kind # "dict" THEN Raise("InvalidResponse", 1, 0)
    ELSE Return([should_continue |-> CoerceBool(resp.d.should_continue),
                 follow_up_query |-> CoerceStr(resp.d.follow_up_query)],
                1, 0)

reflect_on_summary_body(resp) ==
    IF ~Truthy(running_summary) THEN Raise("MissingInput", 0, 0)
    ELSE IF ClientError # "none" THEN Raise(ClientError, 0, 0)
    ELSE IF resp.kind = "raise" THEN Raise("ExternalCallFailure", 1, 0)
    ELSE IF ContentFalsy(resp) THEN Raise("InvalidResponse", 1, 0)
    ELSE IF ~JsonOk(resp) THEN Raise("InvalidResponse", 1, 0)
    ELSE IF resp.kind # "dict" THEN Raise("InvalidResponse", 1, 0)
    ELSE Return([should_continue |-> CoerceBool(resp.d.should_continue),
                 follow_up_query |-> CoerceStr(resp.d.follow_up_query)],
                1, 0)

SummaryHeading == <<"#", "#", " ", "S", "u", "m", "m", "a", "r", "y",
                    "\n", "\n">>
SourcesHeading == <<"\n", "\n", " ", "#", "#", "#", " ", "S", "o", "u", "r",
                    "c", "e", "s", ":", "\n">>

RECURSIVE Reverse(_)
Reverse(q) == IF q = <<>> THEN <<>> ELSE Reverse(Tail(q)) \o <<q[1]>>

\* finalize_summary listing the sources last first.
finalize_summary_reversed ==
    IF ~Truthy(running_summary) THEN Raise("MissingInput", 0, 0)
    ELSE Return([running_summary |->
                    PyStr(SummaryHeading \o PyFormat(running_summary)
                          \o SourcesHeading
                          \o Join(Reverse(sources_gathered), <<"\n">>))],
                0, 0)

finalize_summary_body ==
    IF ~Truthy(running_summary) THEN Raise("MissingInput", 0, 0)
    ELSE Return([running_summary |->
                    PyStr(SummaryHeading \o PyFormat(running_summary)
                          \o SourcesHeading
                          \o Join(sources_gathered, <<"\n">>))],
                0, 0)

\* An `except Exception` that logs and does not raise again: the node
\* returns nothing.
Swallow(r) ==
    [raised |-> r.raised, err |-> "none",
     upd |-> IF r.raised = "none" THEN r.upd ELSE NoUpdate,
     llm |-> r.llm, search |-> r.search]

NoPrompt ==
    [node |-> "none", research_topic |-> PyNone, current_summary |-> PyNone,
     sources |-> <<>>]

\* What the instruction of a model-calling node is formatted from:
\* generate_query's from the topic; summarize_sources' from the topic, the
\* running summary (or "") and the list it gives format_sources, which is
\* state.sources_gathered; reflect_on_summary's from the topic and the
\* running summary.
Instruction(node) ==
    CASE node = "generate_query" ->
             [NoPrompt EXCEPT !.node = node,
                              !.research_topic = research_topic]
      [] node = "summarize_sources" ->
             [node |-> node,
              research_topic |-> research_topic,
              current_summary |-> IF Truthy(running_summary)
                                  THEN running_summary ELSE PyStr(<<>>),
              sources |-> sources_gathered]
      [] node = "reflect_on_summary" ->
             [NoPrompt EXCEPT !.node = node,
                              !.research_topic = research_topic,
                              !.current_summary = running_summary]
      [] OTHER -> NoPrompt

\* The node's `except Exception: ...; raise`: what was raised leaves the
\* node.
Reraise(r) ==
    [raised |-> r.raised, err |-> r.raised,
     upd |-> IF r.raised = "none" THEN r.upd ELSE NoUpdate,
     llm |-> r.llm, search |-> r.search]

generate_query(resp) == Reraise(generate_query_body(resp))
web_research(found) == Reraise(web_research_body(found))
summarize_sources(resp) == Reraise(summarize_parse(resp))
reflect_on_summary(resp) == Reraise(reflect_on_summary_body(resp))
finalize_summary == Reraise(finalize_summary_body)

\* The router comparing with > for >=.
route_research_strict ==
    IF research_loop_count > max_research_loops THEN "finalize_summary"
    ELSE "generate_query"

route_research ==
    IF research_loop_count >= max_research_loops THEN "finalize_summary"
    ELSE "generate_query"

\* The edges with web_research wired to reflect_on_summary.
EdgeSkipsSummarize(node) ==
    CASE node = "generate_query" -> "web_research"
      [] node = "web_research" -> "reflect_on_summary"
      [] node = "summarize_sources" -> "reflect_on_summary"
      [] node = "reflect_on_summary" -> "route_research"
      [] node = "finalize_summary" -> "done"

\* builder.add_edge and the finish point: where a node's return leads.
Edge(node) ==
    CASE node = "generate_query" -> "web_research"
      [] node = "web_research" -> "summarize_sources"
      [] node = "summarize_sources" -> "reflect_on_summary"
      [] node = "reflect_on_summary" -> "route_research"
      [] node = "finalize_summary" -> "done"

\* ------------------------------------------------------------------ actions

\* The graph's merge of a node's update into the state: the two lists are
\* reduced with operator.add, the other fields are overwritten, and a key
\* that is no field of SummaryState is dropped.
Has(upd, k) == k \in DOMAIN upd /\ k \in StateKeys
\* The merge with the two lists overwritten like the other fields.
MergeOverwrite(upd) ==
    /\ research_topic' =
           IF Has(upd, "research_topic") THEN upd.research_topic
           ELSE research_topic
    /\ search_query' =
           IF Has(upd, "search_query") THEN upd.search_query
           ELSE search_query
    /\ web_research_results' =
           IF Has(upd, "web_research_results") THEN upd.web_research_results
           ELSE web_research_results
    /\ sources_gathered' =
           IF Has(upd, "sources_gathered") THEN upd.sources_gathered
           ELSE sources_gathered
    /\ research_loop_count' =
           IF Has(upd, "research_loop_count") THEN upd.research_loop_count
           ELSE research_loop_count
    /\ running_summary' =
           IF Has(upd, "running_summary") THEN upd.running_summary
           ELSE running_summary
    /\ max_research_loops' =
           IF Has(upd, "max_research_loops") THEN upd.max_research_loops
           ELSE max_research_loops

Merge(upd) ==
    /\ research_topic' =
           IF Has(upd, "research_topic") THEN upd.research_topic
           ELSE research_topic
    /\ search_query' =
           IF Has(upd, "search_query") THEN upd.search_query
           ELSE search_query
    /\ web_research_results' =
           IF Has(upd, "web_research_results")
           THEN web_research_results \o upd.web_research_results
           ELSE web_research_results
    /\ sources_gathered' =
           IF Has(upd, "sources_gathered")
           THEN sources_gathered \o upd.sources_gathered
           ELSE sources_gathered
    /\ research_loop_count' =
           IF Has(upd, "research_loop_count") THEN upd.research_loop_count
           ELSE research_loop_count
    /\ running_summary' =
           IF Has(upd, "running_summary") THEN upd.running_summary
           ELSE running_summary
    /\ max_research_loops' =
           IF Has(upd, "max_research_loops") THEN upd.max_research_loops
           ELSE max_research_loops

\* What entering a node and leaving it with r records, whatever r is.
Enter(node, r, resp) ==
    /\ steps' = Append(steps, node)
    /\ llm_calls' = llm_calls + r.llm
    /\ search_calls' = search_calls + r.search
    /\ content' = IF r.llm = 1 THEN resp ELSE content
    /\ prompt' = IF r.llm = 1 THEN Instruction(node) ELSE prompt
    /\ error' = IF r.raised # "none" THEN [kind |-> r.raised, at |-> node]
                ELSE error

\* A node run by the graph: an exception that leaves the node ends the run,
\* a return is merged and the node's edge followed.
RunNode(node, r, resp) ==
    /\ Enter(node, r, resp)
    /\ IF r.err # "none"
       THEN pc' = "failed" /\ UNCHANGED state
       ELSE pc' = Edge(node) /\ Merge(r.upd)
    /\ UNCHANGED <<env, summ_local, loop_pass, output, strip>>

GenerateQuery ==
    /\ pc = "generate_query"
    /\ \E resp \in QueryResponses :
           RunNode("generate_query", generate_query(resp), resp)

WebResearch ==
    /\ pc = "web_research"
    /\ \E found \in SearchResponses :
           RunNode("web_research", web_research(found), Unset)

\* summarize_sources from its entry to the parsed summary, which it holds
\* in its local running_summary when it reaches the tag removal.
SummarizeSources ==
    /\ pc = "summarize_sources"
    /\ \E resp \in SummaryResponses :
           LET r == summarize_sources(resp)
           IN /\ Enter("summarize_sources", r, resp)
              /\ IF r.err # "none"
                 THEN pc' = "failed" /\ summ_local' = summ_local
                 ELSE pc' = "strip_loop" /\ summ_local' = r.upd.running_summary
              /\ loop_pass' = 0
              /\ UNCHANGED <<state, env, output, strip>>

\* The loop may take another pass from x to y: a pass that lengthens the
\* text is followed only up to MaxStrLen characters.
PassAllowed(x, y) == Len(y) <= Len(x) \/ Len(y) <= MaxStrLen

\* summarize_sources at its tag removal: one more pass of the loop, or the
\* return of the summary.
StripLoop ==
    /\ pc = "strip_loop"
    /\ IF StripApplies(summ_local) /\ ~StripIter(summ_local.s).brk
       THEN /\ PassAllowed(summ_local.s, StripIter(summ_local.s).val)
            /\ summ_local' = PyStr(StripIter(summ_local.s).val)
            /\ loop_pass' = 1 - loop_pass
            /\ UNCHANGED <<pc, state>>
       ELSE /\ pc' = Edge("summarize_sources")
            /\ Merge([running_summary |-> summ_local])
            /\ UNCHANGED <<summ_local, loop_pass>>
    /\ UNCHANGED <<env, content, error, output, steps, calls, strip>>

ReflectOnSummary ==
    /\ pc = "reflect_on_summary"
    /\ \E resp \in ReflectResponses :
           RunNode("reflect_on_summary", reflect_on_summary(resp), resp)

\* The conditional edge after reflect_on_summary.
RouteResearch ==
    /\ pc = "route_research"
    /\ pc' = route_research
    /\ steps' = Append(steps, "route_research")
    /\ UNCHANGED <<state, env, content, summ_local, loop_pass, error, output,
                   calls, strip>>

\* finalize_summary, the finish point: its return ends the run, which emits
\* the output record, the running_summary of the final state.
FinalizeSummary ==
    /\ pc = "finalize_summary"
    /\ LET r == finalize_summary
       IN /\ Enter("finalize_summary", r, Unset)
          /\ IF r.err # "none"
             THEN pc' = "failed" /\ UNCHANGED <<state, output>>
             ELSE /\ pc' = Edge("finalize_summary")
                  /\ Merge(r.upd)
                  /\ output' = [emitted |-> TRUE,
                                running_summary |-> r.upd.running_summary]
    /\ UNCHANGED <<env, summ_local, loop_pass, strip>>

Next ==
    \/ GenerateQuery
    \/ WebResearch
    \/ SummarizeSources
    \/ StripLoop
    \/ ReflectOnSummary
    \/ RouteResearch
    \/ FinalizeSummary

\* A request {research_topic, max_research_loops?} given to the graph: the
\* other fields of SummaryState take their defaults.
Init ==
    /\ pc = "generate_query"
    /\ research_topic \in Topics
    /\ max_research_loops \in LoopInputs
    /\ search_query = PyNone
    /\ web_research_results = <<>>
    /\ sources_gathered = <<>>
    /\ research_loop_count = 0
    /\ running_summary = PyNone
    /\ api_key \in BOOLEAN
    /\ environ = NoSettings
    /\ configurable \in RunConfigs
    /\ cfg_model = from_runnable_config(configurable).model
    /\ cfg_loops = from_runnable_config(configurable).max_web_research_loops
    /\ prompt = NoPrompt
    /\ content = Unset
    /\ summ_local = PyNone
    /\ loop_pass = 0
    /\ error = NoError
    /\ output = NoOutput
    /\ steps = <<>>
    /\ llm_calls = 0
    /\ search_calls = 0
    /\ strip_pass = 0
    /\ strip_first = PyNone

Spec == Init /\ [][Next]_vars

\* Every step of a run is taken once it can be: each node's call is a
\* blocking round trip that returns, and the graph then runs the next node.
FairSpec == Spec /\ WF_vars(Next)

\* A request run under any environment and any "configurable" map.
ConfigInit ==
    /\ pc = "generate_query"
    /\ research_topic = PyStr(TopicText)
    /\ max_research_loops \in LoopInputs
    /\ search_query = PyNone
    /\ web_research_results = <<>>
    /\ sources_gathered = <<>>
    /\ research_loop_count = 0
    /\ running_summary = PyNone
    /\ api_key = TRUE
    /\ environ \in AllEnvirons
    /\ configurable \in AllConfigs
    /\ cfg_model = from_runnable_config(configurable).model
    /\ cfg_loops = from_runnable_config(configurable).max_web_research_loops
    /\ prompt = NoPrompt
    /\ content = Unset
    /\ summ_local = PyNone
    /\ loop_pass = 0
    /\ error = NoError
    /\ output = NoOutput
    /\ steps = <<>>
    /\ llm_calls = 0
    /\ search_calls = 0
    /\ strip_pass = 0
    /\ strip_first = PyNone

SpecConfig == ConfigInit /\ [][Next]_vars

\* ------------------------------------------------- a node called on a state

Citation1 == format_sources(<<Result1>>)
Block1 == deduplicate_and_format_sources(<<Result1>>, MaxTokensPerSource)

\* Any node (or the router) called on a SummaryState of any content: the
\* fields absent, empty or set, the lists empty or of one entry.
NodeInit ==
    /\ pc \in Nodes \cup {"route_research"}
    /\ research_topic \in Topics
    /\ max_research_loops \in LoopInputs
    /\ search_query \in {PyNone, PyStr(<<>>), PyStr(QueryText)}
    /\ \E k \in 0..1 :
           /\ web_research_results = [i \in 1..k |-> Block1]
           /\ sources_gathered = [i \in 1..k |-> Citation1]
           /\ research_loop_count = k
    /\ running_summary \in {PyNone, PyStr(<<>>), PyStr(<<"a">>)}
    /\ api_key \in BOOLEAN
    /\ environ = NoSettings
    /\ configurable \in RunConfigs
    /\ cfg_model = from_runnable_config(configurable).model
    /\ cfg_loops = from_runnable_config(configurable).max_web_research_loops
    /\ prompt = NoPrompt
    /\ content = Unset
    /\ summ_local = PyNone
    /\ loop_pass = 0
    /\ error = NoError
    /\ output = NoOutput
    /\ steps = <<>>
    /\ llm_calls = 0
    /\ search_calls = 0
    /\ strip_pass = 0
    /\ strip_first = PyNone

SpecNode == NodeInit /\ [][Next]_vars

\* ------------------------------------------------- the tag removal on its own

Pieces == {StartTag, EndTag, <<"a">>, <<"<", "t", "h">>, <<"i", "n", "k", ">">>}

RECURSIVE Texts(_)
\* The texts of at most k pieces.
Texts(k) ==
    IF k = 0 THEN {<<>>}
    ELSE LET shorter == Texts(k - 1)
         IN shorter \cup {p \o x : p \in Pieces, x \in shorter}

StripInputs == {PyStr(x) : x \in Texts(MaxPieces)} \cup {PyInt(5), PyNone}

\* summarize_sources at its tag removal with any parsed summary.
StripInit ==
    /\ pc = "strip_alone"
    /\ summ_local \in StripInputs
    /\ content = Dict([NoFields EXCEPT !.summary = summ_local])
    /\ loop_pass = 0
    /\ strip_pass = 1
    /\ strip_first = PyNone
    /\ research_topic = PyStr(TopicText)
    /\ max_research_loops = DefaultMaxLoops
    /\ search_query = PyStr(QueryText)
    /\ web_research_results = <<Block1>>
    /\ sources_gathered = <<Citation1>>
    /\ research_loop_count = 1
    /\ running_summary = PyNone
    /\ api_key = TRUE
    /\ environ = NoSettings
    /\ configurable = NoSettings
    /\ cfg_model = from_runnable_config(configurable).model
    /\ cfg_loops = from_runnable_config(configurable).max_web_research_loops
    /\ prompt = Instruction("summarize_sources")
    /\ error = NoError
    /\ output = NoOutput
    /\ steps = <<"summarize_sources">>
    /\ llm_calls = 1
    /\ search_calls = 0

\* One more pass of the loop of the current application.
StripPass ==
    /\ pc = "strip_alone"
    /\ StripApplies(summ_local) /\ ~StripIter(summ_local.s).brk
    /\ PassAllowed(summ_local.s, StripIter(summ_local.s).val)
    /\ summ_local' = PyStr(StripIter(summ_local.s).val)
    /\ loop_pass' = 1 - loop_pass
    /\ UNCHANGED <<pc, state, env, content, error, output, steps, calls,
                   strip>>

\* The first application leaves its loop: its result is kept and the
\* removal is applied to it again.
StripAgain ==
    /\ pc = "strip_alone"
    /\ strip_pass = 1
    /\ ~(StripApplies(summ_local) /\ ~StripIter(summ_local.s).brk)
    /\ strip_first' = summ_local
    /\ strip_pass' = 2
    /\ loop_pass' = 0
    /\ UNCHANGED <<pc, state, env, content, summ_local, error, output, steps,
                   calls>>

\* The second application leaves its loop: the summary is returned.
StripReturn ==
    /\ pc = "strip_alone"
    /\ strip_pass = 2
    /\ ~(StripApplies(summ_local) /\ ~StripIter(summ_local.s).brk)
    /\ pc' = "strip_done"
    /\ Merge([running_summary |-> summ_local])
    /\ UNCHANGED <<env, content, summ_local, loop_pass, error, output, steps,
                   calls, strip>>

StripNext == StripPass \/ StripAgain \/ StripReturn

SpecStrip == StripInit /\ [][StripNext]_vars

\* ------------------------------------------------------------------- claims

RECURSIVE Count(_, _)
\* How many entries of the log are the node.
Count(log, node) ==
    IF log = <<>> THEN 0
    ELSE (IF log[1] = node THEN 1 ELSE 0) + Count(Tail(log), node)

Last(log) == log[Len(log)]

\* C1: when finalization starts, web research has run and
\* research_loop_count has been incremented exactly max_research_loops
\* times, for every max_research_loops the request carries, 0 included.
C1_LoopCountAtFinalization ==
    pc = "finalize_summary" =>
        /\ research_loop_count = max_research_loops
        /\ Count(steps, "web_research") = max_research_loops

\* C2: the nodes run one after the other in the order generate_query,
\* web_research, summarize_sources, reflect_on_summary, router; the first
\* is generate_query; a node starts only when every node before it
\* returned; finalize_summary is entered only from the router, which runs
\* only after reflect_on_summary; nothing runs after finalize_summary; and
\* a run with max_research_loops = 1 that ends well ran each node once.
Follows(a, b) ==
    \/ a = "generate_query" /\ b = "web_research"
    \/ a = "web_research" /\ b = "summarize_sources"
    \/ a = "summarize_sources" /\ b = "reflect_on_summary"
    \/ a = "reflect_on_summary" /\ b = "route_research"
    \/ a = "route_research" /\ b \in {"generate_query", "finalize_summary"}

C2_SequentialOrder ==
    /\ steps # <<>> => steps[1] = "generate_query"
    /\ \A i \in 1..(Len(steps) - 1) : Follows(steps[i], steps[i + 1])
    /\ pc \in Nodes \cup {"route_research"} =>
           /\ error = NoError
           /\ IF steps = <<>> THEN pc = "generate_query"
              ELSE Follows(Last(steps), pc)
    /\ pc = "strip_loop" => error = NoError /\ Last(steps) = "summarize_sources"
    /\ error # NoError => pc = "failed" /\ error.at = Last(steps)
    /\ pc = "done" => Last(steps) = "finalize_summary"
    /\ (pc = "done" /\ max_research_loops = 1) =>
           steps = <<"generate_query", "web_research", "summarize_sources",
                     "reflect_on_summary", "route_research",
                     "finalize_summary">>

C2_Witness ==
    /\ pc = "done"
    /\ max_research_loops = 1
    /\ Count(steps, "reflect_on_summary") = 1

\* C3: the router changes no field of the state and chooses
\* finalize_summary exactly when research_loop_count >= max_research_loops,
\* and generate_query otherwise.
C3_RouterPure ==
    [][pc = "route_research" =>
           /\ UNCHANGED state
           /\ IF research_loop_count >= max_research_loops
              THEN pc' = "finalize_summary"
              ELSE pc' = "generate_query"]_vars

C3_Witness ==
    /\ pc = "generate_query"
    /\ steps # <<>>
    /\ Last(steps) = "route_research"
    /\ research_loop_count < max_research_loops

\* C4: in every state of every run research_loop_count is at most
\* max_research_loops.
C4_LoopCountBounded == research_loop_count <= max_research_loops

\* C5: every run ends, in the return of finalize_summary or in a failure.
C5_Terminates == <>(pc \in {"done", "failed"})

LlmNodes == {"generate_query", "summarize_sources", "reflect_on_summary"}

RequiredField(node, d) ==
    CASE node = "generate_query" -> d.query
      [] node = "summarize_sources" -> d.summary
      [] node = "reflect_on_summary" -> d.follow_up_query

\* The step of a node that made its language-model call.
GotResponse(node) == pc = node /\ llm_calls' = llm_calls + 1

\* The body is an empty string or is not valid JSON.
Unparsable(c) == c.kind \in {"empty", "blank", "garbage"}

\* The body is JSON without the node's required field.
LacksField(node, c) ==
    \/ c.kind = "nondict"
    \/ c.kind = "dict" /\ RequiredField(node, c.d) = Absent

\* The step failed with InvalidResponse, ended the run and left the state.
Rejected(node) ==
    /\ pc' = "failed"
    /\ error' = [kind |-> "InvalidResponse", at |-> node]
    /\ UNCHANGED state

\* C6 as stated: at each of the three model-calling nodes a response that
\* is empty, is not valid JSON or lacks the node's required field (query,
\* summary, follow_up_query) fails the step with InvalidResponse, ends the
\* run and leaves the state as it was.
C6_MalformedRejected ==
    [][\A node \in LlmNodes :
           (GotResponse(node)
               /\ (Unparsable(content') \/ LacksField(node, content')))
           => Rejected(node)]_vars

\* C6 as amended: the same at generate_query and summarize_sources; at
\* reflect_on_summary a response that is empty, not valid JSON or not a
\* JSON object is rejected so, and a JSON object without follow_up_query is
\* accepted: the step raises nothing and the run goes on to the router.
C6_MalformedRejectedAmended ==
    [][\A node \in LlmNodes :
           GotResponse(node) =>
               /\ (Unparsable(content') \/ content'.kind = "nondict")
                      => Rejected(node)
               /\ (node # "reflect_on_summary" /\ LacksField(node, content'))
                      => Rejected(node)
               /\ (node = "reflect_on_summary" /\ content'.kind = "dict")
                      => (pc' = "route_research" /\ error' = NoError)]_vars

C6_Witness ==
    /\ pc = "failed"
    /\ error = [kind |-> "InvalidResponse", at |-> "reflect_on_summary"]
    /\ content.kind = "nondict"

\* The node's required input is empty or absent.
InputMissing(node) ==
    CASE node = "generate_query" -> ~Truthy(research_topic)
      [] node = "web_research" -> ~Truthy(search_query)
      [] node = "summarize_sources" -> sources_gathered = <<>>
      [] node = "reflect_on_summary" -> ~Truthy(running_summary)
      [] node = "finalize_summary" -> ~Truthy(running_summary)

\* C7: a node entered without its required input (generate_query without a
\* topic, web_research without a query, summarize_sources without sources,
\* reflect_on_summary or finalize_summary without a summary) fails with
\* MissingInput, having made no external call and changed no field.
C7_FailFast ==
    [][\A node \in Nodes :
           (pc = node /\ InputMissing(node)) =>
               /\ pc' = "failed"
               /\ error' = [kind |-> "MissingInput", at |-> node]
               /\ UNCHANGED <<state, calls>>]_vars

C7_Witness ==
    /\ pc = "failed"
    /\ error = [kind |-> "MissingInput", at |-> "finalize_summary"]
    /\ steps = <<"finalize_summary">>
    /\ llm_calls = 0

\* C8: once a node has raised, the run is failed: no node is entered after
\* it, and no output record is emitted.
C8_FailureAborts ==
    [][error'.kind # "none" =>
           /\ pc' = "failed"
           /\ ~output'.emitted
           /\ error'.at = Last(steps')
           /\ error.kind # "none" => UNCHANGED vars]_vars

C8_Witness ==
    /\ pc = "failed"
    /\ error = [kind |-> "ExternalCallFailure", at |-> "web_research"]
    /\ research_loop_count = 1

\* C9: when reflect_on_summary returns, search_query is the follow_up_query
\* it read from the response (the state holds no continuation flag).
C9_ReflectionRecorded ==
    [][(pc = "reflect_on_summary" /\ pc' = "route_research") =>
           search_query' = CoerceStr(content'.d.follow_up_query)]_vars

\* C10: the tag removal applied to its own result returns that result, and
\* a summary without a <think> tag is returned as it was.
C10_StripIdempotent ==
    /\ pc = "strip_done" => running_summary = strip_first
    /\ (strip_pass = 2 /\ Find(content.d.summary.s, StartTag) = 0 - 1) =>
           strip_first = content.d.summary

C10_Witness ==
    /\ pc = "strip_done"
    /\ running_summary = PyStr(<<"a">>)
    /\ content.d.summary # running_summary
    /\ Find(content.d.summary.s, StartTag) > 0

SummaryTitle == <<"#", "#", " ", "S", "u", "m", "m", "a", "r", "y">>
SourcesTitle == <<"#", "#", "#", " ", "S", "o", "u", "r", "c", "e", "s", ":">>

\* C11: finalize_summary called with a non-empty summary returns, and then
\* running_summary is a text that begins with "## Summary", holds the
\* previous summary after it and, after that, "### Sources:" followed by
\* the entries of sources_gathered, each once, in the order they were
\* gathered; no other field changes and no external call is made.
C11_FinalizerOutput ==
    [][(pc = "finalize_summary" /\ Truthy(running_summary)) =>
           LET text == running_summary'.s
               prev == PyFormat(running_summary)
               at == Find(text, SourcesTitle)
           IN /\ pc' = "done"
              /\ IsStr(running_summary')
              /\ Slice(text, 0, Len(SummaryTitle)) = SummaryTitle
              /\ \E i \in Len(SummaryTitle)..(at - Len(prev)) :
                     Slice(text, i, i + Len(prev)) = prev
              /\ SliceFrom(text, at + Len(SourcesTitle) + 1)
                     = Join(sources_gathered, <<"\n">>)
              /\ output' = [emitted |-> TRUE,
                            running_summary |-> running_summary']
              /\ UNCHANGED <<research_topic, search_query,
                             web_research_results, sources_gathered,
                             research_loop_count, max_research_loops,
                             calls>>]_vars

C11_Witness ==
    /\ pc = "done"
    /\ output.emitted
    /\ Len(sources_gathered) = 2
    /\ sources_gathered[1] # sources_gathered[2]

\* The list after a step is the list before it with at most n entries
\* added at its end.
Extends(after, old, n) ==
    /\ Len(after) >= Len(old)
    /\ Len(after) <= Len(old) + n
    /\ SubSeq(after, 1, Len(old)) = old

\* C12: in every state web_research_results and sources_gathered have
\* research_loop_count >= 0 entries each, and every step keeps the entries
\* both lists had, in their order, adding at most one at the end of each,
\* and that only in web_research.
C12_AppendOnlyParallel ==
    [][/\ Len(web_research_results) = research_loop_count
       /\ Len(sources_gathered) = research_loop_count
       /\ Len(web_research_results') = research_loop_count'
       /\ Len(sources_gathered') = research_loop_count'
       /\ research_loop_count' >= 0
       /\ Extends(web_research_results', web_research_results, 1)
       /\ Extends(sources_gathered', sources_gathered, 1)
       /\ research_loop_count' # research_loop_count => pc = "web_research"
      ]_vars

C12_Witness ==
    /\ pc = "summarize_sources"
    /\ Len(web_research_results) = 2
    /\ Len(sources_gathered) = 2
    /\ research_loop_count = 2

\* C13: no step changes research_topic or max_research_loops, and a
\* web_research that returns adds one entry to web_research_results, one
\* to sources_gathered and one to research_loop_count, and leaves
\* search_query and running_summary as they were.
C13_WebResearchFrame ==
    [][/\ research_topic' = research_topic
       /\ max_research_loops' = max_research_loops
       /\ (pc = "web_research" /\ pc' = "summarize_sources") =>
              /\ Len(web_research_results') = Len(web_research_results) + 1
              /\ Extends(web_research_results', web_research_results, 1)
              /\ Len(sources_gathered') = Len(sources_gathered) + 1
              /\ Extends(sources_gathered', sources_gathered, 1)
              /\ research_loop_count' = research_loop_count + 1
              /\ UNCHANGED <<search_query, running_summary>>
      ]_vars

C13_Witness ==
    /\ pc = "summarize_sources"
    /\ research_loop_count = 2
    /\ search_query = PyStr(QueryText)
    /\ Truthy(running_summary)

\* C14: generate_query takes a response only when its query field is a
\* str: when it returns search_query is that str, and a query field that is
\* present and no str fails the step with InvalidResponse.
C14_QueryMustBeString ==
    [][pc = "generate_query" =>
           /\ pc' = "web_research" =>
                  /\ IsStr(search_query')
                  /\ search_query' = content'.d.query
           /\ (GotResponse("generate_query")
                  /\ content'.kind = "dict"
                  /\ content'.d.query # Absent
                  /\ ~IsStr(content'.d.query))
              => Rejected("generate_query")]_vars

\* The value a parameter has under environment precedence.
Precedence(from_env, from_config, default) ==
    IF from_env # Absent /\ Truthy(from_env) THEN from_env
    ELSE IF from_config # Absent THEN from_config
    ELSE default

\* C15: the model the run uses and the loop bound the router compares
\* research_loop_count with are the environment's values when set and not
\* empty, else the configurable map's when present, else the defaults.
C15_EnvironmentPrecedence ==
    [][/\ cfg_model' = Precedence(environ'.model, configurable'.model,
                                  PyStr(ModelName))
       /\ pc = "route_research" =>
              LET bound == Precedence(environ.max_web_research_loops,
                                      configurable.max_web_research_loops,
                                      PyInt(DefaultConfigLoops)).n
              IN pc' = "finalize_summary" <=> research_loop_count >= bound
      ]_vars

BothTags(v) ==
    /\ IsStr(v)
    /\ Find(v.s, StartTag) # 0 - 1
    /\ Find(v.s, EndTag) # 0 - 1

\* C16: whatever summary the model returned, the tag-removal loop of
\* summarize_sources is left, and the summary then stored does not hold
\* both a <think> and a </think>.
C16_StripLoopEnds ==
    (pc = "strip_loop") ~>
        (pc = "reflect_on_summary" /\ ~BothTags(running_summary))

\* C17: what a JSON object returned to reflect_on_summary holds decides
\* nothing of the run: the step leaves every field of the state, the
\* configuration, the errors and the output as they were and leads to the
\* router, whatever should_continue and follow_up_query are, and
\* finalize_summary is never reached before research_loop_count >=
\* max_research_loops.
C17_ReflectionNoInfluence ==
    [][/\ (GotResponse("reflect_on_summary") /\ content'.kind = "dict") =>
              /\ pc' = "route_research"
              /\ steps' = Append(steps, "reflect_on_summary")
              /\ prompt' = Instruction("reflect_on_summary")
              /\ UNCHANGED <<state, env, summ_local, loop_pass, error,
                             output, search_calls, strip>>
       /\ pc' = "finalize_summary" =>
              research_loop_count' >= max_research_loops'
      ]_vars

C17_Witness ==
    /\ pc = "generate_query"
    /\ steps # <<>>
    /\ content.kind = "dict"
    /\ content.d.should_continue = PyBool(FALSE)
    /\ content.d.follow_up_query = PyStr(FollowUpText)
    /\ search_query = PyStr(QueryText)

\* C18: in a run of the graph finalize_summary is entered only with a
\* non-empty summary and at least one entry of sources_gathered, never
\* raises, and a run that reached it emits an output record with a
\* non-empty summary.
C18_FinalizerInputPresent ==
    /\ pc = "finalize_summary" =>
           Truthy(running_summary) /\ Len(sources_gathered) >= 1
    /\ error.at # "finalize_summary"
    /\ "finalize_summary" \in {steps[i] : i \in 1..Len(steps)} =>
           /\ pc = "done"
           /\ output.emitted
           /\ Truthy(output.running_summary)

C18_Witness ==
    /\ pc = "done"
    /\ output.emitted
    /\ Last(steps) = "finalize_summary"
    /\ Len(output.running_summary.s) > Len(SummaryTitle)

\* C19: the instruction of summarize_sources is built from the topic, the
\* existing summary (empty at first) and the last entry of
\* web_research_results alone.
C19_SummarizerInputs ==
    [][GotResponse("summarize_sources") =>
           /\ prompt'.research_topic = research_topic
           /\ prompt'.current_summary =
                  (IF Truthy(running_summary) THEN running_summary
                   ELSE PyStr(<<>>))
           /\ prompt'.sources = <<Last(web_research_results)>>]_vars

====
